---- MODULE Spec2Model ----
(***************************************************************************)
(* The three ingestion jobs of history_data_generation/ as one state       *)
(* machine: one invocation of one lambda_handler, from entry to its        *)
(* return or raise.                                                        *)
(*   fed   : fed_interets.py                 (interest rates, one unit)    *)
(*   macro : macroeconomics_data_fetcher.py  (indicators, sequential)      *)
(*   stock : nifty50_history_data_fetcher.py (symbols, pool of 5 threads)  *)
(* A DataFrame is modelled by its number of rows and whether it has any    *)
(* column; DataFrame.empty is true when either axis has length zero.       *)
(* main_df_list is kept as a bag of (symbol, frame) pairs: the order of    *)
(* its entries is not modelled.  The clock is advanced only while          *)
(* s3_upload runs, the one place that reads it.  Reading the configuration *)
(* (os.environ, the symbol file) is taken to succeed.  The executor is     *)
(* given a thread per submit up to max_workers, the most it ever starts.   *)
(***************************************************************************)
EXTENDS Naturals, Sequences, FiniteSets, Bags, TLC

\* ---------------------------------------------------------------- bounds
MaxRows == 2        \* most rows / data points one unit's response carries
MaxIndicators == 3  \* most entries of INDICATORS
NumSymbols == 6     \* most entries of nifty50_stock_names.json
FullLen == 3        \* symbol lists up to this length get every outcome assignment
MaxTicks == 2       \* most midnights that pass while s3_upload runs

VARIABLES
    job,          \* which handler this invocation runs
    pc,           \* position of the handler's (main) thread
    ret,          \* what the handler returned, once pc = "returned"
    day0,         \* calendar date when the invocation started
    today,        \* calendar date the clock shows now (datetime.today())
    ticks,        \* midnights passed since the invocation started
    key,          \* the f-string of the S3 key, as far as it is evaluated
    df,           \* the DataFrame handed to s3_upload
    uploads,      \* the calls of s3.upload_fileobj made so far
    data,         \* fed: response.json()
    indicators,   \* macro: number of entries of INDICATORS
    unit,         \* macro: the outcome of each loop iteration run so far
    all_data,     \* macro: list of per-indicator DataFrames
    provider,     \* stock: what yfinance holds for each symbol
    status,       \* stock: state of each symbol's future
    result,       \* stock: each finished future's result
    nthreads,     \* stock: threads the executor has spawned
    main_df_list  \* stock: collected non-empty DataFrames

vars == <<job, pc, ret, day0, today, ticks, key, df, uploads, data,
          indicators, unit, all_data,
          provider, status, result, nthreads, main_df_list>>

fedVars == <<data>>
macroVars == <<indicators, unit, all_data>>
stockVars == <<provider, status, result, nthreads, main_df_list>>
clockVars == <<day0, today, ticks>>

Jobs == {"fed", "macro", "stock"}

\* ------------------------------------------------------------- DataFrame
DataFrame(r, c) == [rows |-> r, hascols |-> c]

\* pd.DataFrame()
EmptyFrame == DataFrame(0, FALSE)

\* DataFrame.empty
Empty(f) == f.rows = 0 \/ ~f.hascols

RECURSIVE SumRows(_)
SumRows(fs) == IF fs = <<>> THEN 0 ELSE Head(fs).rows + SumRows(Tail(fs))

\* pd.concat(list)
concat(fs) == DataFrame(SumRows(fs), \E i \in 1..Len(fs) : fs[i].hascols)

\* ------------------------------------------------------------ calendar
Date(y, m, d) == [y |-> y, m |-> m, d |-> d]

IsLeap(y) == (y % 4 = 0 /\ y % 100 # 0) \/ y % 400 = 0

DaysInMonth(y, m) ==
    IF m = 2 THEN (IF IsLeap(y) THEN 29 ELSE 28)
    ELSE IF m \in {4, 6, 9, 11} THEN 30 ELSE 31

NextDay(t) ==
    IF t.d < DaysInMonth(t.y, t.m) THEN Date(t.y, t.m, t.d + 1)
    ELSE IF t.m < 12 THEN Date(t.y, t.m + 1, 1)
    ELSE Date(t.y + 1, 1, 1)

RECURSIVE AddDays(_, _)
AddDays(t, n) == IF n = 0 THEN t ELSE AddDays(NextDay(t), n - 1)

StartDates == {Date(2025, 12, 31), Date(2024, 2, 28), Date(2026, 6, 15)}

\* strftime('%Y'), strftime('%m'), strftime('%d'): zero-padded decimal digits
RECURSIVE Digits(_, _)
Digits(n, width) ==
    IF width = 0 THEN <<>> ELSE Append(Digits(n \div 10, width - 1), n % 10)

StrfY(t) == Digits(t.y, 4)
StrfM(t) == Digits(t.m, 2)
StrfD(t) == Digits(t.d, 2)

Prefix(j) ==
    IF j = "fed" THEN "us_fed_rates"
    ELSE IF j = "macro" THEN "macroeconimics"
    ELSE "stocks_data/history"

Filename(j) ==
    IF j = "fed" THEN "us_fed_rates.csv"
    ELSE IF j = "macro" THEN "macroeconomic_metrics.csv"
    ELSE "nifty50_stock_history_data.csv"

NoKey == [prefix |-> "", year |-> <<>>, month |-> <<>>, day |-> <<>>, filename |-> ""]

\* ------------------------------------------------------------- s3_upload
\* fed_interets.s3_upload returns early on an empty frame; the other two do not
HasEmptyGuard(j) == j = "fed"

S3Enter ==
    /\ pc = "s3_upload"
    /\ IF HasEmptyGuard(job) /\ Empty(df)
       THEN /\ pc' = "returned"
            /\ ret' = "None"
       ELSE /\ pc' = "key_year"
            /\ ret' = ret
    /\ UNCHANGED <<job, key, df, uploads, clockVars, fedVars, macroVars, stockVars>>

KeyYear ==
    /\ pc = "key_year"
    /\ key' = [NoKey EXCEPT !.prefix = Prefix(job), !.year = StrfY(today)]
    /\ pc' = "key_month"
    /\ UNCHANGED <<job, ret, df, uploads, clockVars, fedVars, macroVars, stockVars>>

KeyMonth ==
    /\ pc = "key_month"
    /\ key' = [key EXCEPT !.month = StrfM(today)]
    /\ pc' = "key_day"
    /\ UNCHANGED <<job, ret, df, uploads, clockVars, fedVars, macroVars, stockVars>>

KeyDay ==
    /\ pc = "key_day"
    /\ key' = [key EXCEPT !.day = StrfD(today), !.filename = Filename(job)]
    /\ pc' = "upload_fileobj"
    /\ UNCHANGED <<job, ret, df, uploads, clockVars, fedVars, macroVars, stockVars>>

\* s3.upload_fileobj succeeds or raises; s3_upload and the handler re-raise
UploadFileobj ==
    /\ pc = "upload_fileobj"
    /\ \E ok \in BOOLEAN :
        /\ uploads' = Append(uploads, [key |-> key, df |-> df, ok |-> ok])
        /\ pc' = IF ok THEN "returned" ELSE "raised"
        /\ ret' = IF ok THEN "None" ELSE ret
    /\ UNCHANGED <<job, key, df, clockVars, fedVars, macroVars, stockVars>>

\* midnight passes while s3_upload runs
Tick ==
    /\ pc \in {"s3_upload", "key_year", "key_month", "key_day", "upload_fileobj"}
    /\ ticks < MaxTicks
    /\ today' = NextDay(today)
    /\ ticks' = ticks + 1
    /\ UNCHANGED <<job, pc, ret, day0, key, df, uploads, fedVars, macroVars, stockVars>>

\* ------------------------------------------------------------------- fed
\* data before response.json() has returned
NoData == [received |-> FALSE, mapping |-> FALSE, present |-> FALSE, list |-> <<>>]

RECURSIVE BoolSeqs(_)
BoolSeqs(n) ==
    IF n = 0 THEN {<<>>}
    ELSE BoolSeqs(n - 1) \cup {Append(q, b) : q \in {p \in BoolSeqs(n - 1) : Len(p) = n - 1}, b \in BOOLEAN}

\* a JSON body: not an object, an object without "observations", or one whose
\* "observations" is a list of records, each with or without fields
FedBodies ==
    {[received |-> TRUE, mapping |-> FALSE, present |-> FALSE, list |-> <<>>],
     [received |-> TRUE, mapping |-> TRUE, present |-> FALSE, list |-> <<>>]}
    \cup {[received |-> TRUE, mapping |-> TRUE, present |-> TRUE, list |-> q] :
             q \in BoolSeqs(MaxRows)}

FedFailures == {"transport", "status", "not_json"}

\* lines 42-58: requests.get, raise_for_status, response.json
FedFetch ==
    /\ job = "fed"
    /\ pc = "start"
    /\ \/ \E f \in FedFailures :
            /\ pc' = "raised"
            /\ data' = data
       \/ \E b \in FedBodies :
            /\ pc' = "fed_process"
            /\ data' = b
    /\ UNCHANGED <<job, ret, key, df, uploads, clockVars, macroVars, stockVars>>

\* pd.DataFrame(observations)
FrameOfRecords(list) == DataFrame(Len(list), \E i \in 1..Len(list) : list[i])

\* lines 60-71
FedProcess ==
    /\ job = "fed"
    /\ pc = "fed_process"
    /\ LET observations == IF data.present THEN data.list ELSE <<>>
       IN  IF ~data.mapping
           THEN /\ pc' = "raised"
                /\ ret' = ret
                /\ df' = df
           ELSE IF observations = <<>>
           THEN /\ pc' = "returned"
                /\ ret' = "None"
                /\ df' = df
           ELSE /\ pc' = "s3_upload"
                /\ ret' = ret
                /\ df' = FrameOfRecords(observations)
    /\ UNCHANGED <<job, key, uploads, clockVars, fedVars, macroVars, stockVars>>

\* ----------------------------------------------------------------- macro
MacroFailures == {"transport", "status", "not_json"}

\* a JSON body, as far as lines 50-61 look at it: whether data["values"] is a
\* dict, holds indicator_id, whether values[indicator_id] holds country_code,
\* whether that entry is a mapping, and how many (year, value) points it has
Body(isdict, has_id, has_country, mapping, points) ==
    [isdict |-> isdict, has_id |-> has_id, has_country |-> has_country,
     mapping |-> mapping, points |-> points]

MacroBodies ==
    {Body(FALSE, FALSE, FALSE, FALSE, 0),
     Body(TRUE, FALSE, FALSE, FALSE, 0),
     Body(TRUE, TRUE, FALSE, FALSE, 0),
     Body(TRUE, TRUE, TRUE, FALSE, 0)}
    \cup {Body(TRUE, TRUE, TRUE, TRUE, n) : n \in 0..MaxRows}

MacroResponses ==
    {[fail |-> f, body |-> Body(FALSE, FALSE, FALSE, FALSE, 0)] : f \in MacroFailures}
    \cup {[fail |-> "none", body |-> b] : b \in MacroBodies}

\* line 51, negated
ValuesOk(b) == b.isdict /\ b.has_id /\ b.has_country

\* lines 39-66: does the iteration reach all_data.append(df)
Extracted(r) == r.fail = "none" /\ ValuesOk(r.body) /\ r.body.mapping

\* the loop carrying on after a failed indicator
AfterIndicatorSkips(ok) == "macro_loop"

\* lines 43-48 and 64-66: every except clause of the loop re-raises
AfterIndicator(ok) == IF ok THEN "macro_loop" ELSE "raised"

\* lines 31-35
MacroStart ==
    /\ job = "macro"
    /\ pc = "start"
    /\ \E n \in 0..MaxIndicators :
        /\ indicators' = n
        /\ pc' = IF n = 0 THEN "raised" ELSE "macro_loop"
    /\ UNCHANGED <<job, ret, key, df, uploads, clockVars, fedVars, unit, all_data, stockVars>>

\* lines 36-66: one iteration of the loop over indicators.items()
MacroIteration ==
    /\ job = "macro"
    /\ pc = "macro_loop"
    /\ Len(unit) < indicators
    /\ \E r \in MacroResponses :
        LET ok == Extracted(r)
        IN  /\ unit' = Append(unit, [ok |-> ok, points |-> IF ok THEN r.body.points ELSE 0])
            /\ all_data' = IF ok THEN Append(all_data, DataFrame(r.body.points, TRUE))
                           ELSE all_data
            /\ pc' = AfterIndicator(ok)
    /\ UNCHANGED <<job, ret, key, df, uploads, clockVars, fedVars, indicators, stockVars>>

\* lines 67-73
MacroFinish ==
    /\ job = "macro"
    /\ pc = "macro_loop"
    /\ Len(unit) = indicators
    /\ IF all_data # <<>>
       THEN /\ df' = concat(all_data)
            /\ pc' = "s3_upload"
       ELSE /\ df' = df
            /\ pc' = "raised"
    /\ UNCHANGED <<job, ret, key, uploads, clockVars, fedVars, macroVars, stockVars>>

\* ----------------------------------------------------------------- stock
max_workers == 5

Outcome(kind, rows) == [kind |-> kind, rows |-> rows]

\* what one symbol's two yfinance calls do: raise, give history rows but no
\* info, or give info and 0..MaxRows history rows
OutcomeSeq ==
    <<Outcome("exception", 0), Outcome("noinfo", MaxRows)>>
    \o [r \in 1..(MaxRows + 1) |-> Outcome("ok", r - 1)]

StockOutcomes == {OutcomeSeq[i] : i \in 1..Len(OutcomeSeq)}

\* the outcome assignments tried for a list of n symbols: all of them for a
\* short list, the constant ones and the rotations of OutcomeSeq for a long one
Providers(n) ==
    IF n <= FullLen THEN [1..n -> StockOutcomes]
    ELSE {[i \in 1..n |-> o] : o \in StockOutcomes}
         \cup {[i \in 1..n |-> OutcomeSeq[((i + k) % Len(OutcomeSeq)) + 1]] :
                 k \in 0..(Len(OutcomeSeq) - 1)}

Returned(f) == [raised |-> FALSE, df |-> f]
Raised == [raised |-> TRUE, df |-> EmptyFrame]

\* the except clause re-raising instead of returning an empty frame
fetch_stock_price_reraises(o) ==
    IF o.kind = "exception" THEN Raised
    ELSE IF o.kind = "noinfo" THEN Returned(EmptyFrame)
    ELSE Returned(DataFrame(o.rows, TRUE))

\* lines 18-60
fetch_stock_price(o) ==
    IF o.kind = "exception" THEN Returned(EmptyFrame)
    ELSE IF o.kind = "noinfo" THEN Returned(EmptyFrame)
    ELSE Returned(DataFrame(o.rows, TRUE))

\* an off-by-one in the pool's thread limit
CanSpawnOneMore(n) == n <= max_workers

\* ThreadPoolExecutor.submit starts a thread while fewer than max_workers exist
CanSpawn(n) == n < max_workers

\* every result kept, empty or not
KeepResultAlways(f) == TRUE

\* line 89
KeepResult(f) == ~Empty(f)

\* the list replaced instead of extended
AppendResultOverwrites(list, s, f) == SetToBag({<<s, f>>})

\* line 90
AppendResult(list, s, f) == list (+) SetToBag({<<s, f>>})

Symbols == 1..Len(status)

Running == {s \in Symbols : status[s] = "running"}

\* lines 78-83: json.load of the symbol file, main_df_list = []
StockLoad ==
    /\ job = "stock"
    /\ pc = "start"
    /\ \E n \in 0..NumSymbols : \E p \in Providers(n) :
        /\ provider' = p
        /\ status' = [s \in 1..n |-> "unsubmitted"]
        /\ result' = [s \in 1..n |-> Returned(EmptyFrame)]
        /\ pc' = IF n = 0 THEN "as_completed" ELSE "submit"
    /\ UNCHANGED <<job, ret, key, df, uploads, clockVars, fedVars, macroVars,
                   nthreads, main_df_list>>

\* line 86: executor.submit(fetch_stock_price, stock) for the next symbol
Submit ==
    /\ job = "stock"
    /\ pc = "submit"
    /\ \E s \in Symbols :
        /\ status[s] = "unsubmitted"
        /\ \A t \in 1..(s - 1) : status[t] # "unsubmitted"
        /\ status' = [status EXCEPT ![s] = "queued"]
        /\ nthreads' = IF CanSpawn(nthreads) THEN nthreads + 1 ELSE nthreads
        /\ pc' = IF s = Len(status) THEN "as_completed" ELSE "submit"
    /\ UNCHANGED <<job, ret, key, df, uploads, clockVars, fedVars, macroVars,
                   provider, result, main_df_list>>

\* an idle pool thread takes the oldest queued work item
WorkerStart ==
    /\ job = "stock"
    /\ Cardinality(Running) < nthreads
    /\ \E s \in Symbols :
        /\ status[s] = "queued"
        /\ \A t \in 1..(s - 1) : status[t] # "queued"
        /\ status' = [status EXCEPT ![s] = "running"]
    /\ UNCHANGED <<job, pc, ret, key, df, uploads, clockVars, fedVars, macroVars,
                   provider, result, nthreads, main_df_list>>

\* fetch_stock_price returns in a pool thread and the future is set
WorkerFinish ==
    /\ job = "stock"
    /\ \E s \in Running :
        /\ result' = [result EXCEPT ![s] = fetch_stock_price(provider[s])]
        /\ status' = [status EXCEPT ![s] = "done"]
    /\ UNCHANGED <<job, pc, ret, key, df, uploads, clockVars, fedVars, macroVars,
                   provider, nthreads, main_df_list>>

\* lines 87-90: as_completed yields a finished future; future.result() re-raises
Collect ==
    /\ job = "stock"
    /\ pc = "as_completed"
    /\ \E s \in Symbols :
        /\ status[s] = "done"
        /\ status' = [status EXCEPT ![s] = "consumed"]
        /\ IF result[s].raised
           THEN /\ pc' = "raised"
                /\ main_df_list' = main_df_list
           ELSE /\ pc' = pc
                /\ main_df_list' = IF KeepResult(result[s].df)
                                   THEN AppendResult(main_df_list, s, result[s].df)
                                   ELSE main_df_list
    /\ UNCHANGED <<job, ret, key, df, uploads, clockVars, fedVars, macroVars,
                   provider, result, nthreads>>

\* leaving the loop as soon as no finished future is waiting
JoinedEarly == \A s \in Symbols : status[s] # "done"

\* as_completed is exhausted and the with block has joined the pool
Joined == \A s \in Symbols : status[s] = "consumed"

PoolExit ==
    /\ job = "stock"
    /\ pc = "as_completed"
    /\ Joined
    /\ pc' = "check"
    /\ UNCHANGED <<job, ret, key, df, uploads, clockVars, fedVars, macroVars, stockVars>>

RECURSIVE BagRows(_, _)
BagRows(B, S) ==
    IF S = {} THEN 0
    ELSE LET e == CHOOSE x \in S : TRUE
         IN  CopiesIn(e, B) * e[2].rows + BagRows(B, S \ {e})

\* pd.concat(main_df_list)
concat_list(B) == DataFrame(BagRows(B, BagToSet(B)), \E e \in BagToSet(B) : e[2].hascols)

\* lines 91-100
StockAggregate ==
    /\ job = "stock"
    /\ pc = "check"
    /\ IF main_df_list # EmptyBag
       THEN /\ df' = concat_list(main_df_list)
            /\ pc' = "s3_upload"
            /\ ret' = ret
       ELSE /\ df' = df
            /\ pc' = "returned"
            /\ ret' = "message"
    /\ UNCHANGED <<job, key, uploads, clockVars, fedVars, macroVars, stockVars>>

\* ------------------------------------------------------------------ init
Init ==
    /\ job \in Jobs
    /\ pc = "start"
    /\ ret = "pending"
    /\ day0 \in StartDates
    /\ today = day0
    /\ ticks = 0
    /\ key = NoKey
    /\ df = EmptyFrame
    /\ uploads = <<>>
    /\ data = NoData
    /\ indicators = 0
    /\ unit = <<>>
    /\ all_data = <<>>
    /\ provider = <<>>
    /\ status = <<>>
    /\ result = <<>>
    /\ nthreads = 0
    /\ main_df_list = EmptyBag

Next ==
    \/ FedFetch
    \/ FedProcess
    \/ MacroStart
    \/ MacroIteration
    \/ MacroFinish
    \/ StockLoad
    \/ Submit
    \/ WorkerStart
    \/ WorkerFinish
    \/ Collect
    \/ PoolExit
    \/ StockAggregate
    \/ S3Enter
    \/ KeyYear
    \/ KeyMonth
    \/ KeyDay
    \/ UploadFileobj
    \/ Tick

Spec == Init /\ [][Next]_vars

\* ================================================================ claims
Done == pc \in {"returned", "raised"}

InUpload == pc \in {"s3_upload", "key_year", "key_month", "key_day", "upload_fileobj"}

StockSuccess(s) == provider[s].kind = "ok" /\ provider[s].rows > 0

RECURSIVE BagCopies(_, _)
BagCopies(B, S) ==
    IF S = {} THEN 0
    ELSE LET e == CHOOSE x \in S : TRUE
         IN  CopiesIn(e, B) + BagCopies(B, S \ {e})

\* number of entries of main_df_list that came from symbol s
EntriesOf(s) == BagCopies(main_df_list, {e \in BagToSet(main_df_list) : e[1] = s})

RECURSIVE ProvidedRows(_)
ProvidedRows(S) ==
    IF S = {} THEN 0
    ELSE LET s == CHOOSE x \in S : TRUE
         IN  provider[s].rows + ProvidedRows(S \ {s})

\* the key section 4.4 builds from one date
KeyOf(j, t) ==
    [prefix |-> Prefix(j), year |-> StrfY(t), month |-> StrfM(t), day |-> StrfD(t),
     filename |-> Filename(j)]

\* no unit of the batch has produced a successful result
NoSuccess ==
    /\ job = "fed" => ~(data.present /\ data.list # <<>>)
    /\ job = "macro" => \A i \in 1..Len(unit) : ~unit[i].ok
    /\ job = "stock" => \A s \in Symbols : ~StockSuccess(s)

\* C1: in each job, as long as no unit has produced a successful result,
\* upload_fileobj has not been called.
C1_NoSuccessNoWrite == NoSuccess => uploads = <<>>

C1_Witness ==
    /\ job = "stock"
    /\ Len(status) >= 2
    /\ NoSuccess
    /\ \E s \in Symbols : provider[s].kind = "exception"
    /\ pc = "returned"
    /\ ret = "message"

\* C2: in the macro job, once an indicator has failed the invocation has
\* raised, nothing was written, and the failing indicator is the last one
\* that was fetched.
C2_StrictAbort ==
    (job = "macro" /\ \E i \in 1..Len(unit) : ~unit[i].ok)
        => /\ pc = "raised"
           /\ uploads = <<>>
           /\ \A i \in 1..Len(unit) : ~unit[i].ok => i = Len(unit)

C2_Witness ==
    /\ job = "macro"
    /\ indicators = 3
    /\ Len(unit) = 2
    /\ unit[1].ok
    /\ ~unit[2].ok
    /\ pc = "raised"

\* C3: in the stock job, the published frame holds exactly one entry with
\* the fetched rows for every symbol that has info and history rows and
\* none for any other symbol; every symbol's fetch has run when the handler
\* ends; the handler raises only when the upload itself failed, and it
\* uploads once whenever some symbol succeeded.
C3_TolerantRows ==
    job = "stock" =>
        /\ \A i \in 1..Len(uploads) :
            /\ \A s \in Symbols :
                IF StockSuccess(s)
                THEN /\ EntriesOf(s) = 1
                     /\ CopiesIn(<<s, DataFrame(provider[s].rows, TRUE)>>, main_df_list) = 1
                ELSE EntriesOf(s) = 0
            /\ uploads[i].df.rows = ProvidedRows({s \in Symbols : StockSuccess(s)})
        /\ (pc = "returned" /\ \E s \in Symbols : StockSuccess(s)) => Len(uploads) = 1
        /\ pc = "raised" => (Len(uploads) = 1 /\ ~uploads[1].ok)
        /\ Done => \A s \in Symbols : status[s] = "consumed"

C3_Witness ==
    /\ job = "stock"
    /\ pc = "returned"
    /\ Len(uploads) = 1
    /\ uploads[1].ok
    /\ \E s \in Symbols : provider[s].kind = "exception"
    /\ \E s \in Symbols : provider[s].kind = "noinfo"
    /\ \E s \in Symbols : StockSuccess(s)

\* C4: in the stock job at most 5 fetch_stock_price calls are running at
\* any moment.
C4_AtMostFiveInFlight == Cardinality(Running) <= 5

C4_Witness ==
    /\ Cardinality(Running) = 5
    /\ \E s \in Symbols : status[s] = "queued"

\* C5: while the aggregated frame is being uploaded, and once a write was
\* made, every unit of the batch has been dispatched and has completed.
C5_AggregateAfterAll ==
    (InUpload \/ uploads # <<>>) =>
        /\ job = "stock" => \A s \in Symbols : status[s] \in {"done", "consumed"}
        /\ job = "macro" => Len(unit) = indicators
        /\ job = "fed" => data.received

C5_Witness ==
    /\ job = "stock"
    /\ pc = "upload_fileobj"
    /\ Len(status) > max_workers
    /\ \A s \in Symbols : status[s] = "consumed"

\* a batch that ended with no usable data and without a failed fetch
ZeroData ==
    /\ job = "fed" => (data.received /\ data.mapping /\ data.list = <<>>)
    /\ job = "macro" => (pc # "start" /\ all_data = <<>> /\ \A i \in 1..Len(unit) : unit[i].ok)
    /\ job = "stock" => (pc # "start" /\ \A s \in Symbols : ~StockSuccess(s))

\* C6: a handler whose batch ended with zero usable data has returned, not
\* raised.
C6_NoDataReturns == (Done /\ ZeroData /\ uploads = <<>>) => pc = "returned"

\* C7: an invocation calls upload_fileobj at most once, once exactly when
\* its dataset is not empty, and a failed call ends the invocation raised.
C7_OneWrite ==
    /\ Len(uploads) <= 1
    /\ \A i \in 1..Len(uploads) : ~Empty(uploads[i].df)
    /\ (pc = "returned" /\ ~Empty(df)) => Len(uploads) = 1
    /\ \A i \in 1..Len(uploads) : ~uploads[i].ok => pc = "raised"

\* C8: every key written is the key of one single date among those the
\* clock showed during the invocation.
C8_KeyOfOneDate ==
    \A i \in 1..Len(uploads) :
        \E k \in 0..ticks : uploads[i].key = KeyOf(job, AddDays(day0, k))

\* C9: s3_upload never goes on to write an empty frame.
C9_EmptyNeverWritten ==
    /\ pc \in {"key_year", "key_month", "key_day", "upload_fileobj"} => ~Empty(df)
    /\ \A i \in 1..Len(uploads) : uploads[i].df.rows > 0

\* C10: in the stock job main_df_list holds exactly one entry, the future's
\* own result, for every consumed symbol whose result is not empty and none
\* for any other symbol, and every symbol is consumed once the pool is left.
C10_OneEntryPerResult ==
    job = "stock" =>
        /\ \A s \in Symbols :
            EntriesOf(s) = IF status[s] = "consumed" /\ ~Empty(result[s].df) THEN 1 ELSE 0
        /\ \A e \in BagToSet(main_df_list) : e[1] \in Symbols /\ e[2] = result[e[1]].df
        /\ pc \notin {"start", "submit", "as_completed"}
              => \A s \in Symbols : status[s] = "consumed"

C10_Witness ==
    /\ job = "stock"
    /\ pc = "check"
    /\ Len(status) > max_workers
    /\ BagCardinality(main_df_list) >= 2
    /\ \E s \in Symbols : Empty(result[s].df)

====
